---------------------------- MODULE Spec2Model ----------------------------
(***************************************************************************)
(* Model of the money-stack ingestion pipeline:                            *)
(*   - the usePlaidData hook (fetchPlaidData, handlePlaidSuccess,          *)
(*     autoCategorizeTransactions, categorizeTransactions),                *)
(*   - the useDatabase hook and DatabaseService (upserts, category         *)
(*     override) with the hosted store as two tables of rows,              *)
(*   - the fetch-plaid-data edge function (pagination loop).               *)
(* Amounts and balances are integers (cents).  Strings that the code       *)
(* inspects (descriptions) are sequences of one-character strings.         *)
(***************************************************************************)
EXTENDS Integers, Sequences, FiniteSets, TLC

(***************************************************************************)
(* Bounds of the model.                                                    *)
(***************************************************************************)
MaxSyncs == 2
MaxUserEdits == 1
MaxTotalSteps == 24
MaxBatch == 2

(***************************************************************************)
(* Program constants.                                                      *)
(***************************************************************************)
batchSize == 500
MaxRequestCount == 10
DefaultMaxTransactions == 2000

(***************************************************************************)
(* Generic helpers.                                                        *)
(***************************************************************************)
Null == "null"

Abs(x) == IF x < 0 THEN -x ELSE x

Min(a, b) == IF a < b THEN a ELSE b

RECURSIVE SumLen(_)
SumLen(chunks) ==
  IF chunks = <<>> THEN 0 ELSE Head(chunks).len + SumLen(Tail(chunks))

\* Array.prototype.find: the first element satisfying the test, else NotFound.
NotFound == [found |-> FALSE]

FindFirst(s, Test(_)) ==
  IF \E i \in 1..Len(s) : Test(s[i])
  THEN s[CHOOSE i \in 1..Len(s) : Test(s[i]) /\ \A j \in 1..(i-1) : ~Test(s[j])]
  ELSE NotFound

(***************************************************************************)
(* String operations used by the matching code.                            *)
(***************************************************************************)
LowerChar(c) ==
  CASE c = "A" -> "a"
    [] c = "B" -> "b"
    [] c = "C" -> "c"
    [] c = "D" -> "d"
    [] c = "E" -> "e"
    [] c = "F" -> "f"
    [] c = "G" -> "g"
    [] c = "H" -> "h"
    [] c = "I" -> "i"
    [] c = "J" -> "j"
    [] c = "K" -> "k"
    [] c = "L" -> "l"
    [] c = "M" -> "m"
    [] c = "N" -> "n"
    [] c = "O" -> "o"
    [] c = "P" -> "p"
    [] c = "Q" -> "q"
    [] c = "R" -> "r"
    [] c = "S" -> "s"
    [] c = "T" -> "t"
    [] c = "U" -> "u"
    [] c = "V" -> "v"
    [] c = "W" -> "w"
    [] c = "X" -> "x"
    [] c = "Y" -> "y"
    [] c = "Z" -> "z"
    [] OTHER -> c

\* String.prototype.toLowerCase
toLowerCase(s) == [i \in 1..Len(s) |-> LowerChar(s[i])]

\* s.split(' ')[0]: the characters before the first space
FirstWord(s) ==
  IF \E i \in 1..Len(s) : s[i] = " "
  THEN SubSeq(s, 1, (CHOOSE i \in 1..Len(s) : s[i] = " " /\ \A j \in 1..(i-1) : s[j] # " ") - 1)
  ELSE s

\* String.prototype.includes
includes(s, w) ==
  \E i \in 1..(Len(s) - Len(w) + 1) : SubSeq(s, i, i + Len(w) - 1) = w

(***************************************************************************)
(* The aggregator's data (sandbox fixture, shortened).                     *)
(***************************************************************************)
ExtAccountIds == {"acc_1", "acc_2"}

\* balances.current of an account at the time of a fetch: the bank posts
\* between any two fetches, so a later fetch reports another balance
BalanceAt(a, at) == (IF a = "acc_1" THEN 284367 ELSE -35650) + 100 * at

\* transaction_id -> record as the aggregator reports it
ExtTransactions ==
  << [transaction_id |-> "tx_1", account_id |-> "acc_1", amount |-> 6743,
      date |-> 23, name |-> <<"U", "b">>, category |-> <<"Shops">>],
     [transaction_id |-> "tx_2", account_id |-> "acc_2", amount |-> -280000,
      date |-> 20, name |-> <<"u", "b", " ", "x">>, category |-> <<>>],
     [transaction_id |-> "tx_3", account_id |-> "acc_3", amount |-> 1200,
      date |-> 21, name |-> <<"U", "b">>, category |-> <<>>] >>

\* the transactions of the fetch whose account is among the fetched accounts
Resolvable ==
  {i \in 1..Len(ExtTransactions) : ExtTransactions[i].account_id \in ExtAccountIds}

ExtTx(txid) ==
  ExtTransactions[CHOOSE i \in 1..Len(ExtTransactions) :
                    ExtTransactions[i].transaction_id = txid]

\* Labels: what the aggregator, the classifier and the user write.
ModelCategories == {"Food & Dining"}
UserCategories == {"Shopping"}
Undefined == "undefined"
UndefinedId == 0
AccessToken == "access-token"

(***************************************************************************)
(* Rows and payloads.                                                      *)
(***************************************************************************)
\* dbAccount literal of fetchPlaidData
AccountPayload(extId, balance, at) ==
  [external_account_id |-> extId, balance |-> balance,
   connected_at |-> at, last_synced_at |-> at, is_active |-> TRUE]

AccountRow(p, id) == [id |-> id] @@ p

\* accounts upsert, onConflict: 'external_account_id,user_id' (one user)
AccountConflict(rows, extId) == {r \in rows : r.external_account_id = extId}

\* DatabaseService.saveAccount: the table after the upsert and the row returned
UpsertAccountRow(rows, p, nid) ==
  LET hit == AccountConflict(rows, p.external_account_id)
      row == IF hit # {} THEN AccountRow(p, (CHOOSE r \in hit : TRUE).id)
                         ELSE AccountRow(p, nid)
  IN  [rows |-> (rows \ hit) \cup {row}, row |-> row,
       nextId |-> IF hit # {} THEN nid ELSE nid + 1]

\* the amount stored as the aggregator reports it
TransformAmountKept(t) == t.amount

\* the object literal returned by the map callback of fetchPlaidData
TransformAmount(t) == -t.amount

\* the account looked up without regard to the transaction's account
TransformTransactionAnyAccount(t, savedAccounts) ==
  [account_id |-> IF savedAccounts # {}
                  THEN (CHOOSE a \in savedAccounts :
                          \A b \in savedAccounts : a.id <= b.id).id
                  ELSE UndefinedId,
   external_transaction_id |-> t.transaction_id,
   description |-> t.name,
   amount |-> TransformAmount(t),
   date |-> t.date,
   category_name |-> IF t.category # <<>> THEN t.category[1] ELSE Undefined,
   is_manual_category |-> FALSE]

TransformTransaction(t, savedAccounts) ==
  LET acc == {a \in savedAccounts : a.external_account_id = t.account_id}
  IN  [account_id |-> IF acc # {} THEN (CHOOSE a \in acc : TRUE).id ELSE UndefinedId,
       external_transaction_id |-> t.transaction_id,
       description |-> t.name,
       amount |-> TransformAmount(t),
       date |-> t.date,
       category_name |-> IF t.category # <<>> THEN t.category[1] ELSE Undefined,
       is_manual_category |-> FALSE]

\* data.transactions.map(...) without the filter
TransformedUnfiltered(savedAccounts) ==
  [i \in 1..Len(ExtTransactions) |->
     TransformTransaction(ExtTransactions[i], savedAccounts)]

\* data.transactions.map(...).filter(t => t.account_id)
TransformedTransactions(savedAccounts) ==
  SelectSeq([i \in 1..Len(ExtTransactions) |->
               TransformTransaction(ExtTransactions[i], savedAccounts)],
            LAMBDA t : t.account_id # UndefinedId)

\* a plain insert: no row ever conflicts
TransactionConflictNone(rows, p) == {}

\* transactions upsert, onConflict: 'external_transaction_id,account_id'
TransactionConflict(rows, p) ==
  {r \in rows : r.external_transaction_id = p.external_transaction_id
                /\ r.account_id = p.account_id}

\* a column whose key is absent from the payload: NULL on insert; on update
\* the client library either leaves it or nulls it (keepMissing)
TransactionRow(p, id, old, keepMissing) ==
  [id |-> id,
   account_id |-> p.account_id,
   external_transaction_id |-> p.external_transaction_id,
   description |-> p.description,
   amount |-> p.amount,
   date |-> p.date,
   category_name |-> IF p.category_name # Undefined THEN p.category_name
                     ELSE IF old # NotFound /\ keepMissing THEN old.category_name
                     ELSE Null,
   is_manual_category |-> p.is_manual_category]

\* DatabaseService.saveTransactions: bulk upsert, rows returned in input order
RECURSIVE UpsertTransactionRows(_, _, _, _)
UpsertTransactionRows(rows, payloads, nid, keepMissing) ==
  IF payloads = <<>> THEN [rows |-> rows, saved |-> <<>>, nextId |-> nid]
  ELSE LET p == Head(payloads)
           hit == TransactionConflict(rows, p)
           row == IF hit # {}
                  THEN LET old == CHOOSE r \in hit : TRUE
                       IN  TransactionRow(p, old.id, old, keepMissing)
                  ELSE TransactionRow(p, nid, NotFound, keepMissing)
           rest == UpsertTransactionRows((rows \ hit) \cup {row}, Tail(payloads),
                                         IF hit # {} THEN nid ELSE nid + 1, keepMissing)
       IN  [rows |-> rest.rows, saved |-> <<row>> \o rest.saved, nextId |-> rest.nextId]

\* Array.prototype.sort with (a, b) => b.date - a.date (stable)
RECURSIVE InsertByDate(_, _)
InsertByDate(sorted, x) ==
  IF sorted = <<>> THEN <<x>>
  ELSE IF Head(sorted).date >= x.date
       THEN <<Head(sorted)>> \o InsertByDate(Tail(sorted), x)
       ELSE <<x>> \o sorted

RECURSIVE SortByDateDesc(_)
SortByDateDesc(s) ==
  IF s = <<>> THEN <<>>
  ELSE InsertByDate(SortByDateDesc(SubSeq(s, 1, Len(s) - 1)), s[Len(s)])

\* the setTransactions updater of useDatabase.saveTransactions
RECURSIVE MergeSaved(_, _)
MergeSaved(prev, saved) ==
  IF saved = <<>> THEN prev
  ELSE LET n == Head(saved)
           hit == {i \in 1..Len(prev) :
                     prev[i].external_transaction_id = n.external_transaction_id}
           first == CHOOSE i \in hit : \A j \in hit : i <= j
       IN  MergeSaved(IF hit # {} THEN [prev EXCEPT ![first] = n]
                                  ELSE Append(prev, n),
                      Tail(saved))

MirrorAfterSave(prev, saved) == SortByDateDesc(MergeSaved(prev, saved))

\* DatabaseService.updateTransactionCategory: update ... where id = transactionId
UpdateCategoryRows(rows, id, cat) ==
  {IF r.id = id THEN [r EXCEPT !.category_name = cat, !.is_manual_category = TRUE]
               ELSE r : r \in rows}

\* the setTransactions updater of useDatabase.updateTransactionCategory
UpdateCategoryMirror(prev, id, cat) ==
  [i \in 1..Len(prev) |->
     IF prev[i].id = id
     THEN [prev[i] EXCEPT !.category_name = cat, !.is_manual_category = TRUE]
     ELSE prev[i]]

(***************************************************************************)
(* Matching of a classifier result to a transaction of the batch.          *)
(***************************************************************************)
ExactMatch(t, catTrans) == t.description = catTrans.description

FuzzyMatch(t, catTrans) ==
  /\ Abs(t.amount - Abs(catTrans.amount)) < 1
  /\ includes(toLowerCase(t.description), FirstWord(toLowerCase(catTrans.description)))

\* autoCategorizeTransactions: one find with (exact || fuzzy)
FindOriginalAuto(batch, catTrans) ==
  FindFirst(batch, LAMBDA t : ExactMatch(t, catTrans) \/ FuzzyMatch(t, catTrans))

\* categorizeTransactions: exact find first, fuzzy find second
FindOriginalManual(batch, catTrans) ==
  IF FindFirst(batch, LAMBDA t : ExactMatch(t, catTrans)) # NotFound
  THEN FindFirst(batch, LAMBDA t : ExactMatch(t, catTrans))
  ELSE FindFirst(batch, LAMBDA t : FuzzyMatch(t, catTrans))

\* the guard in front of updateTransactionCategory, read from the batch entry
MayUpdate(originalTrans, catTrans) ==
  /\ originalTrans # NotFound
  /\ catTrans.category # Null
  /\ ~originalTrans.is_manual_category

\* the set of updateTransactionCategory calls one response leads to
CategoryUpdates(kind, batch, response) ==
  {[id |-> (IF kind = "auto" THEN FindOriginalAuto(batch, response[i])
                             ELSE FindOriginalManual(batch, response[i])).id,
    category |-> response[i].category] :
     i \in {j \in 1..Len(response) :
              MayUpdate(IF kind = "auto" THEN FindOriginalAuto(batch, response[j])
                                         ELSE FindOriginalManual(batch, response[j]),
                        response[j])}}

(***************************************************************************)
(* State.                                                                  *)
(***************************************************************************)
VARIABLES
  dbAccounts,        \* the accounts table (set of rows)
  dbTransactions,    \* the transactions table (set of rows)
  nextId,            \* next internal identifier the store hands out
  accounts,          \* useDatabase: in-memory mirror of the account rows
  transactions,      \* useDatabase: in-memory mirror of the transaction rows
  isLoading,         \* usePlaidData: in-flight flag
  plaidAccessToken,  \* usePlaidData: token state
  localStorage,      \* value under the key plaid_access_token
  clock,             \* reading of new Date()
  sync,              \* the fetchPlaidData invocations
  run,               \* the categorization runs
  userEdits,         \* number of user category overrides so far
  userChoice,        \* history: <<transaction id, category>> the user chose last
  fetch,             \* the fetch-plaid-data edge function invocation
  categorize,        \* the categorize-transactions edge function invocation
  link,              \* the linking attempt: configuration, PlaidService, PlaidConnect
  removal,           \* ConnectedAccounts: its own useDatabase instance and handleRemoveAccount
  matching           \* one lookup of a model result among the transactions of a batch

vars == <<dbAccounts, dbTransactions, nextId, accounts, transactions, isLoading,
          plaidAccessToken, localStorage, clock, sync, run,
          userEdits, userChoice, fetch, categorize, link, removal, matching>>

serverVars == <<fetch, categorize, link>>

hookVars == <<dbAccounts, dbTransactions, nextId, accounts, transactions, isLoading,
              plaidAccessToken, localStorage, clock, sync, run,
              userEdits, userChoice, removal, matching>>

SyncIds == 1..MaxSyncs
RunIds == 1..(MaxSyncs + 1)

NoBalances == [a \in ExtAccountIds |-> 0]

IdleSync ==
  [pc |-> "idle", closureAccounts |-> <<>>, balances |-> NoBalances, at |-> 0,
   prior |-> {}, pending |-> {}, saved |-> {}, savedIds |-> {}, failed |-> {},
   outcome |-> "none", errorToasts |-> 0, successToasts |-> 0, loaded |-> 0,
   removedAtStart |-> {}]

\* run s is the one scheduled by invocation s; the last one is the button's
ManualRunId == MaxSyncs + 1

IdleRun ==
  [pc |-> "idle", kind |-> "auto", batch |-> <<>>, manualAtStart |-> {},
   errorToast |-> FALSE]

DoneRun == [IdleRun EXCEPT !.pc = "done"]

InFlight(s) == sync[s].pc \in {"fetching", "savingAccounts", "savingTransactions"}

FreeSyncs == {s \in SyncIds : sync[s].pc = "idle"}

FirstFree(S) == CHOOSE x \in S : \A y \in S : x <= y

(***************************************************************************)
(* The categorize-transactions function.                                   *)
(***************************************************************************)
\* the branches of the if / else-if chain of the rule-based fallback, in order:
\* the keywords looked for in the description and in the merchant, and whether
\* a positive amount alone selects the branch
FallbackRules ==
  <<
    [category |-> "Food & Dining",
      description |->
       {<<"g", "r", "o", "c", "e", "r", "y">>,
        <<"f", "o", "o", "d">>,
        <<"m", "e", "t", "r", "o">>},
      merchant |->
       {<<"r", "e", "s", "t", "a", "u", "r", "a", "n", "t">>,
        <<"t", "i", "m", " ", "h", "o", "r", "t", "o", "n", "s">>,
        <<"m", "c", "d", "o", "n", "a", "l", "d">>},
      positiveAmount |-> FALSE],
    [category |-> "Transportation",
      description |->
       {<<"u", "b", "e", "r">>,
        <<"t", "a", "x", "i">>,
        <<"t", "r", "a", "n", "s", "i", "t">>,
        <<"g", "a", "s">>,
        <<"t", "t", "c">>},
      merchant |->
       {<<"s", "h", "e", "l", "l">>},
      positiveAmount |-> FALSE],
    [category |-> "Shopping",
      description |->
       {<<"a", "m", "a", "z", "o", "n">>,
        <<"s", "h", "o", "p">>,
        <<"t", "a", "r", "g", "e", "t">>},
      merchant |->
       {<<"c", "a", "n", "a", "d", "i", "a", "n", " ", "t", "i", "r", "e">>},
      positiveAmount |-> FALSE],
    [category |-> "Entertainment",
      description |->
       {<<"n", "e", "t", "f", "l", "i", "x">>,
        <<"s", "p", "o", "t", "i", "f", "y">>,
        <<"e", "n", "t", "e", "r", "t", "a", "i", "n", "m", "e", "n", "t">>},
      merchant |->
       {},
      positiveAmount |-> FALSE],
    [category |-> "Bills & Utilities",
      description |->
       {<<"h", "y", "d", "r", "o">>,
        <<"b", "e", "l", "l">>,
        <<"r", "o", "g", "e", "r", "s">>,
        <<"u", "t", "i", "l", "i", "t", "y">>,
        <<"b", "i", "l", "l">>},
      merchant |->
       {},
      positiveAmount |-> FALSE],
    [category |-> "Healthcare",
      description |->
       {<<"p", "h", "a", "r", "m", "a", "c", "y">>,
        <<"d", "r", "u", "g", " ", "m", "a", "r", "t">>,
        <<"m", "e", "d", "i", "c", "a", "l">>},
      merchant |->
       {},
      positiveAmount |-> FALSE],
    [category |-> "Income",
      description |->
       {<<"d", "e", "p", "o", "s", "i", "t">>,
        <<"s", "a", "l", "a", "r", "y">>,
        <<"p", "a", "y", "r", "o", "l", "l">>},
      merchant |->
       {},
      positiveAmount |-> TRUE]
  >>

RuleMatches(rule, transaction) ==
  \/ \E k \in rule.description : includes(toLowerCase(transaction.description), k)
  \/ \E k \in rule.merchant : includes(toLowerCase(transaction.merchant), k)
  \/ rule.positiveAmount /\ transaction.amount > 0

\* every transaction ends in the branch "Other"
FallbackAlwaysOther(transaction) == "Other"

\* let category = 'Other', then the first branch whose condition holds;
\* transaction.merchant || '' makes a missing merchant the empty string
FallbackCategory(transaction) ==
  IF \E i \in 1..Len(FallbackRules) : RuleMatches(FallbackRules[i], transaction)
  THEN FallbackRules[CHOOSE i \in 1..Len(FallbackRules) :
                       /\ RuleMatches(FallbackRules[i], transaction)
                       /\ \A j \in 1..(i - 1) : ~RuleMatches(FallbackRules[j], transaction)
                    ].category
  ELSE "Other"

\* { ...transaction, category }
Categorized(transaction, category) ==
  [description |-> transaction.description, merchant |-> transaction.merchant,
   amount |-> transaction.amount, category |-> category]

\* transactions.map(...) of the fallback
FallbackCategorize(batch) ==
  [i \in 1..Len(batch) |-> Categorized(batch[i], FallbackCategory(batch[i]))]

\* transactions the function may be called with
SampleDescriptions ==
  {<<"T", "i", "m", " ", "H", "o", "r", "t", "o", "n", "s", " ", "C", "o", "f", "f", "e", "e">>,
   <<"U", "B", "E", "R", " ", "f", "o", "o", "d">>,
   <<"S", "h", "e", "l", "l", " ", "g", "a", "s">>,
   <<"A", "T", "M">>}

SampleMerchants == {<<>>, <<"T", "i", "m", " ", "H", "o", "r", "t", "o", "n", "s">>}

SampleTransactions ==
  [description : SampleDescriptions, merchant : SampleMerchants, amount : {-450, 280000}]

Batches == UNION {[1..n -> SampleTransactions] : n \in 1..MaxBatch}

(***************************************************************************)
(* The fetch-plaid-data function and the server it pages through.          *)
(***************************************************************************)
\* total_transactions a well-behaved server may report
Totals == {k * 250 : k \in 0..MaxTotalSteps} \cup {1, 499, 501, 1200}

\* maxTransactions the caller may pass
MaxTransactionsChoices ==
  {0, 1, 500, 1200, DefaultMaxTransactions, 4500, 4501, 5000, 6000, 7000}

\* "well": reports the true total and serves from the requested offset;
\* "greedy": always reports 999999 and returns full pages
ServerModes == {"well", "greedy"}

NoResponse == [status |-> 0, error |-> FALSE, accounts |-> FALSE,
               transactions |-> <<>>, requestCount |-> 0, totalAvailable |-> 0]

IdleFetch ==
  [pc |-> "idle", mode |-> "well", total |-> 0, maxTransactions |-> 0,
   accountsFetched |-> FALSE, pageFailed |-> FALSE,
   allTransactions |-> <<>>, offset |-> 0, totalAvailable |-> 0,
   requestCount |-> 0, requests |-> <<>>, response |-> NoResponse,
   clientResult |-> "pending"]

\* allTransactions.length, allTransactions being the served ranges [from, len]
Length(chunks) == SumLen(chunks)

\* the condition of the while loop
LoopContinues(f) == Length(f.allTransactions) < f.maxTransactions

\* Math.min(batchSize, maxTransactions - allTransactions.length)
RemainingToFetch(f) == Min(batchSize, f.maxTransactions - Length(f.allTransactions))

\* the cap tested one request too late
HitRequestCapLate(requestCount) == requestCount > MaxRequestCount

\* if (requestCount >= 10) break
HitRequestCap(requestCount) == requestCount >= MaxRequestCount

\* the offset left where it was
NextOffsetStuck(offset, n) == offset

\* offset += transactionsData.transactions.length
NextOffset(offset, n) == offset + n

\* a reply without total_transactions
MissingTotal == -1

\* transactionsData.total_transactions || 0
TotalOrZero(total) == IF total = MissingTotal THEN 0 ELSE total

\* the replies [total, n] the server may give to a request (offset, count);
\* "arbitrary": an empty, a one-record or a full page, with no total, a total
\* of zero or a total that grows ahead of what was served
Replies(f, count) ==
  IF f.mode = "well"
  THEN {[total |-> f.total,
         n |-> Min(count, IF f.total > f.offset THEN f.total - f.offset ELSE 0)]}
  ELSE IF f.mode = "greedy"
  THEN {[total |-> 999999, n |-> count]}
  ELSE UNION {{[total |-> t, n |-> n] :
                 t \in {MissingTotal, 0, Length(f.allTransactions) + n + 1}} :
              n \in {0, 1, count}}

\* the 200 response built after the loop
OkResponse(f) ==
  [status |-> 200, error |-> FALSE, accounts |-> TRUE,
   transactions |-> f.allTransactions, requestCount |-> f.requestCount,
   totalAvailable |-> f.totalAvailable]

\* a degraded success: the accounts fetched so far, no transactions, a note
DegradedResponse(f) ==
  [status |-> 200, error |-> TRUE, accounts |-> f.accountsFetched,
   transactions |-> <<>>, requestCount |-> f.requestCount,
   totalAvailable |-> f.totalAvailable]

\* the response of the catch block: { error: error.message }, status 500
ErrorResponse(f) ==
  [status |-> 500, error |-> TRUE, accounts |-> FALSE,
   transactions |-> <<>>, requestCount |-> 0, totalAvailable |-> 0]

\* PlaidService.getAccountsAndTransactions on the function's response
ClientResult(response) ==
  IF response.status # 200 \/ ~response.accounts THEN "rejects" ELSE "resolves"

Respond(f, response) ==
  [f EXCEPT !.pc = "done", !.response = response,
            !.clientResult = ClientResult(response)]

\* one pass through the body of the while loop, given the server's reply
AfterPage(f, count, reply) ==
  LET f1 == [f EXCEPT !.requestCount = @ + 1,
                      !.requests = Append(@, [offset |-> f.offset, count |-> count]),
                      !.totalAvailable = TotalOrZero(reply.total)]
      f2 == [f1 EXCEPT !.allTransactions = Append(@, [from |-> f.offset, len |-> reply.n]),
                       !.offset = NextOffset(f.offset, reply.n)]
  IN  IF reply.n = 0 THEN Respond(f1, OkResponse(f1))
      ELSE IF Length(f2.allTransactions) >= f2.totalAvailable
              \/ HitRequestCap(f2.requestCount)
              \/ ~LoopContinues(f2)
           THEN Respond(f2, OkResponse(f2))
           ELSE f2

\* the function is invoked with { accessToken, daysBack, maxTransactions }
FetchCalled(mode, total, maxTransactions, configured) ==
  /\ fetch.pc = "idle"
  /\ fetch' = IF configured
              THEN [IdleFetch EXCEPT !.pc = "accounts", !.mode = mode, !.total = total,
                                     !.maxTransactions = maxTransactions]
              ELSE Respond([IdleFetch EXCEPT !.mode = mode, !.total = total,
                                             !.maxTransactions = maxTransactions],
                           ErrorResponse(IdleFetch))
  /\ UNCHANGED <<hookVars, categorize, link>>

\* /accounts/get answers
AccountsAnswered(ok) ==
  /\ fetch.pc = "accounts"
  /\ fetch' = IF ~ok THEN Respond(fetch, ErrorResponse(fetch))
              ELSE LET f == [fetch EXCEPT !.accountsFetched = TRUE, !.pc = "loop"]
                   IN  IF LoopContinues(f) THEN f ELSE Respond(f, OkResponse(f))
  /\ UNCHANGED <<hookVars, categorize, link>>

\* /transactions/get answers with a page
PageAnswered ==
  /\ fetch.pc = "loop"
  /\ \E reply \in Replies(fetch, RemainingToFetch(fetch)) :
       fetch' = AfterPage(fetch, RemainingToFetch(fetch), reply)
  /\ UNCHANGED <<hookVars, categorize, link>>

\* /transactions/get answers with a non-success status: throw, caught
PageFailed ==
  /\ fetch.pc = "loop"
  /\ fetch' = Respond([fetch EXCEPT !.requestCount = @ + 1,
                                    !.requests = Append(@, [offset |-> fetch.offset,
                                                            count |-> RemainingToFetch(fetch)]),
                                    !.pageFailed = TRUE],
                      ErrorResponse(fetch))
  /\ UNCHANGED <<hookVars, categorize, link>>

FetchNext ==
  \/ \E mode \in ServerModes, total \in Totals,
        maxTransactions \in MaxTransactionsChoices, configured \in BOOLEAN :
       FetchCalled(mode, total, maxTransactions, configured)
  \/ \E ok \in BOOLEAN : AccountsAnswered(ok)
  \/ PageAnswered
  \/ PageFailed

(***************************************************************************)
(* One invocation of the categorize-transactions function.                 *)
(***************************************************************************)
\* the text of choices[0].message.content as a sequence of tokens: an opening
\* fence with or without the word json, a closing fence, white space, prose, a
\* JSON array of { description, category } (labels), a JSON value that is no
\* array
Token(kind) == [kind |-> kind, labels |-> <<>>]

ArrayToken(labels) == [kind |-> "array", labels |-> labels]

\* the labels named in the prompt
Taxonomy ==
  {"Food & Dining", "Transportation", "Shopping", "Entertainment",
   "Bills & Utilities", "Healthcare", "Income", "Transfer", "Other"}

\* a label the remote model makes up
OffTaxonomy == "Groceries"

\* the arrays the remote model may write for a batch: none, the first or all of
\* the batch's descriptions, each with a category of the prompt, or the first
\* description with a label of its own
Arrays(batch) ==
  LET descriptions == {batch[i].description : i \in 1..Len(batch)}
      labelled == UNION {[D -> ModelCategories] :
                           D \in {{}, {batch[1].description}, descriptions}}
  IN  {ArrayToken(f) : f \in labelled}
      \cup {ArrayToken([d \in {batch[1].description} |-> OffTaxonomy])}

Contents(batch) ==
  UNION {{ <<a>>,
           <<Token("ws"), a, Token("ws")>>,
           <<Token("fence-json"), Token("ws"), a, Token("ws"), Token("fence")>>,
           <<Token("fence"), Token("ws"), a, Token("ws"), Token("fence")>>,
           <<Token("text"), Token("fence-json"), a, Token("fence")>> } : a \in Arrays(batch)}
  \cup {<<Token("text")>>, <<Token("object")>>}

RECURSIVE DropLeading(_, _)
DropLeading(content, kind) ==
  IF content # <<>> /\ Head(content).kind = kind
  THEN DropLeading(Tail(content), kind)
  ELSE content

RECURSIVE DropTrailing(_, _)
DropTrailing(content, kind) ==
  IF content # <<>> /\ content[Len(content)].kind = kind
  THEN DropTrailing(SubSeq(content, 1, Len(content) - 1), kind)
  ELSE content

\* String.prototype.trim
Trim(content) == DropTrailing(DropLeading(content, "ws"), "ws")

\* .replace(/\s*```$/, '')
StripClosingFence(content) ==
  IF content # <<>> /\ content[Len(content)].kind = "fence"
  THEN DropTrailing(SubSeq(content, 1, Len(content) - 1), "ws")
  ELSE content

\* the clean-up of markdown formatting: startsWith('```json') / startsWith('```')
StripFences(content) ==
  IF content # <<>> /\ Head(content).kind \in {"fence-json", "fence"}
  THEN StripClosingFence(DropLeading(Tail(content), "ws"))
  ELSE content

\* JSON.parse of the cleaned text: a value or a SyntaxError
Parses(content) ==
  Len(Trim(content)) = 1 /\ Trim(content)[1].kind \in {"array", "object"}

\* categorizations.find(cat => cat.description === transaction.description)
MatchedCategory(labels, transaction) ==
  IF transaction.description \in DOMAIN labels
  THEN labels[transaction.description] ELSE "Other"

NoCategorized == [status |-> 0, error |-> FALSE, categorizedTransactions |-> <<>>]

\* the response of the catch block: { error: error.message }, status 500
CategorizeError == [status |-> 500, error |-> TRUE, categorizedTransactions |-> <<>>]

\* new Response(JSON.stringify({ categorizedTransactions }))
CategorizeOk(categorized) ==
  [status |-> 200, error |-> FALSE, categorizedTransactions |-> categorized]

\* the fallback used whenever the remote model gave nothing usable
CategorizeFallback(batch) == CategorizeOk(FallbackCategorize(batch))

\* the function's answer to a remote response with an ok status
AfterRemoteOk(batch, content) ==
  LET cleaned == StripFences(Trim(content))
  IN  IF ~Parses(cleaned) THEN CategorizeError
      ELSE IF Trim(cleaned)[1].kind # "array" THEN CategorizeError
      ELSE CategorizeOk([i \in 1..Len(batch) |->
                           Categorized(batch[i],
                                       MatchedCategory(Trim(cleaned)[1].labels, batch[i]))])

IdleCategorize ==
  [pc |-> "idle", batch |-> <<>>, remote |-> "none", content |-> <<>>,
   response |-> NoCategorized]

\* the function is invoked with { transactions }; without the API key it throws
CategorizeCalled(keyConfigured) ==
  /\ categorize.pc = "idle"
  /\ \E batch \in Batches :
       categorize' = IF keyConfigured
                     THEN [IdleCategorize EXCEPT !.pc = "calling", !.batch = batch]
                     ELSE [IdleCategorize EXCEPT !.pc = "done", !.batch = batch,
                                                 !.response = CategorizeError]
  /\ UNCHANGED <<hookVars, fetch, link>>

\* the chat-completion endpoint answers with a non-success status
RemoteStatusNotOk ==
  /\ categorize.pc = "calling"
  /\ categorize' = [categorize EXCEPT !.pc = "done", !.remote = "status",
                                      !.response = CategorizeFallback(categorize.batch)]
  /\ UNCHANGED <<hookVars, fetch, link>>

\* the endpoint answers ok, with or without a message in choices[0]
RemoteAnswers(hasMessage) ==
  /\ categorize.pc = "calling"
  /\ \E content \in Contents(categorize.batch) :
       categorize' = IF hasMessage
                     THEN [categorize EXCEPT !.pc = "done", !.remote = "content",
                                             !.content = content,
                                             !.response = AfterRemoteOk(categorize.batch, content)]
                     ELSE [categorize EXCEPT !.pc = "done", !.remote = "no-message",
                                             !.response = CategorizeError]
  /\ UNCHANGED <<hookVars, fetch, link>>

\* fetch() itself rejects
RemoteUnreachable ==
  /\ categorize.pc = "calling"
  /\ categorize' = [categorize EXCEPT !.pc = "done", !.remote = "unreachable",
                                      !.response = CategorizeError]
  /\ UNCHANGED <<hookVars, fetch, link>>

CategorizeNext ==
  \/ \E keyConfigured \in BOOLEAN : CategorizeCalled(keyConfigured)
  \/ RemoteStatusNotOk
  \/ \E hasMessage \in BOOLEAN : RemoteAnswers(hasMessage)
  \/ RemoteUnreachable

(***************************************************************************)
(* Account linking: the server-side configuration, the functions            *)
(* get-plaid-credentials, create-plaid-link-token and exchange-plaid-token,*)
(* the revisions of PlaidService and of the PlaidConnect component.        *)
(***************************************************************************)

PlaidClientId == "plaid-client-id"
PlaidSecret == "plaid-secret"

\* Deno.env.get: the variable is unset, set to the empty string, or set.
ClientIdValues == {Undefined, "", PlaidClientId}
SecretValues == {Undefined, "", PlaidSecret}

\* JavaScript's `!value` for the values above.
Falsy(value) == value \in {Undefined, Null, ""}

NotConfigured == "Plaid credentials not configured"
AggregatorError == "Plaid API error"

LinkToken == "link-token"
PublicToken == "public-token"
AggregatorData == "aggregator-data"

\* Values made up in the browser; the Date.now() suffix is left out, so that
\* startsWith(prefix) is equality with the prefix.
SandboxLinkToken == "link-sandbox-"
SandboxPublicToken == "public_sandbox_"
SandboxAccessToken == "access-sandbox-"
SandboxData == "sandbox-data"

Fabricated == {SandboxLinkToken, SandboxPublicToken, SandboxAccessToken, SandboxData}

\* The body of a function's response, with Null for a key the body lacks.
FunctionResponse(from, status, error, clientId, secret, value) ==
  [from |-> from, status |-> status, error |-> error,
   client_id |-> clientId, secret |-> secret, value |-> value]

getCredentialsPartial(clientId, secret) ==
  FunctionResponse("get-plaid-credentials", 200, NotConfigured,
                   IF Falsy(clientId) THEN Null ELSE clientId,
                   IF Falsy(secret) THEN Null ELSE secret, Null)

\* get-plaid-credentials
getCredentials(clientId, secret) ==
  IF Falsy(clientId) \/ Falsy(secret)
  THEN FunctionResponse("get-plaid-credentials", 200, NotConfigured, Null, Null, Null)
  ELSE FunctionResponse("get-plaid-credentials", 200, Null, clientId, secret, Null)

\* The aggregator honours a request only for a token it issued itself.
AggregatorAccepts(token, remoteOk) == remoteOk /\ token \notin Fabricated

\* create-plaid-link-token, exchange-plaid-token and the gate of
\* fetch-plaid-data: the configuration check, then the aggregator's answer.
GatedFunction(from, clientId, secret, accepted, value) ==
  IF Falsy(clientId) \/ Falsy(secret)
  THEN FunctionResponse(from, 500, NotConfigured, Null, Null, Null)
  ELSE IF ~accepted
       THEN FunctionResponse(from, 400, AggregatorError, Null, Null, Null)
       ELSE FunctionResponse(from, 200, Null, Null, Null, value)

\* PlaidService's private fields after construction.
NewBrowser == [clientId |-> "", secret |-> "", initialized |-> FALSE]

\* What a PlaidService method hands back: a resolved value or a rejection,
\* the private fields afterwards and the responses the browser received.
ServiceResult(ok, value, browser, responses) ==
  [ok |-> ok, value |-> value, browser |-> browser, responses |-> responses]

\* PlaidService.initialize (direct and mock-fallback revisions); ok = FALSE
\* is the throw of the direct revision and the `false` of the other.
initialize(browser, clientId, secret, invokeOk) ==
  IF browser.initialized
  THEN ServiceResult(TRUE, Null, browser, {})
  ELSE IF ~invokeOk
       THEN ServiceResult(FALSE, Null, browser, {})
       ELSE LET data == getCredentials(clientId, secret) IN
            IF Falsy(data.client_id) \/ Falsy(data.secret)
            THEN ServiceResult(FALSE, Null, browser, {data})
            ELSE ServiceResult(TRUE, Null,
                               [clientId |-> data.client_id, secret |-> data.secret,
                                initialized |-> TRUE],
                               {data})

ServiceRevisions == {"direct", "mockFallback", "edge"}
ComponentRevisions == {"strict", "sandboxFallback"}

\* A method of the edge-function revision: invoke the function, throw on an
\* error (no answer or a non-2xx status) or on a missing value.
EdgeCall(from, browser, clientId, secret, invokeOk, accepted, value) ==
  LET response == GatedFunction(from, clientId, secret, accepted, value) IN
  IF ~invokeOk
  THEN ServiceResult(FALSE, Null, browser, {})
  ELSE IF response.status # 200 \/ Falsy(response.value)
       THEN ServiceResult(FALSE, Null, browser, {response})
       ELSE ServiceResult(TRUE, response.value, browser, {response})

\* A method of the direct revision: initialize, then call the aggregator
\* from the browser; every failure is rethrown.
DirectCall(browser, clientId, secret, invokeOk, accepted, value) ==
  LET init == initialize(browser, clientId, secret, invokeOk) IN
  IF ~init.ok \/ ~accepted
  THEN ServiceResult(FALSE, Null, init.browser, init.responses)
  ELSE ServiceResult(TRUE, value, init.browser, init.responses)

\* A method of the mock-fallback revision: without credentials, for a
\* sandbox-looking input and on every failure it resolves with a made-up
\* value.
MockFallbackCall(browser, clientId, secret, invokeOk, accepted, sandboxInput, value, canned) ==
  LET init == initialize(browser, clientId, secret, invokeOk) IN
  IF Falsy(init.browser.clientId) \/ Falsy(init.browser.secret)
     \/ sandboxInput \/ ~init.browser.initialized
  THEN ServiceResult(TRUE, canned, init.browser, init.responses)
  ELSE IF ~accepted
       THEN ServiceResult(TRUE, canned, init.browser, init.responses)
       ELSE ServiceResult(TRUE, value, init.browser, init.responses)

\* PlaidService.createLinkToken
createLinkToken(service, browser, clientId, secret, invokeOk, remoteOk) ==
  CASE service = "edge" ->
         EdgeCall("create-plaid-link-token", browser, clientId, secret,
                  invokeOk, remoteOk, LinkToken)
    [] service = "direct" ->
         DirectCall(browser, clientId, secret, invokeOk, remoteOk, LinkToken)
    [] service = "mockFallback" ->
         MockFallbackCall(browser, clientId, secret, invokeOk, remoteOk, FALSE,
                          LinkToken, SandboxLinkToken)

\* PlaidService.exchangePublicToken
exchangePublicToken(service, browser, publicToken, clientId, secret, invokeOk, remoteOk) ==
  LET accepted == AggregatorAccepts(publicToken, remoteOk) IN
  CASE service = "edge" ->
         EdgeCall("exchange-plaid-token", browser, clientId, secret,
                  invokeOk, accepted, AccessToken)
    [] service = "direct" ->
         DirectCall(browser, clientId, secret, invokeOk, accepted, AccessToken)
    [] service = "mockFallback" ->
         MockFallbackCall(browser, clientId, secret, invokeOk, accepted,
                          publicToken = SandboxPublicToken,
                          AccessToken, SandboxAccessToken)

\* PlaidService.getAccountsAndTransactions
getAccountsAndTransactions(service, browser, accessToken, clientId, secret, invokeOk, remoteOk) ==
  LET accepted == AggregatorAccepts(accessToken, remoteOk) IN
  CASE service = "edge" ->
         EdgeCall("fetch-plaid-data", browser, clientId, secret,
                  invokeOk, accepted, AggregatorData)
    [] service = "direct" ->
         DirectCall(browser, clientId, secret, invokeOk, accepted, AggregatorData)
    [] service = "mockFallback" ->
         MockFallbackCall(browser, clientId, secret, invokeOk, accepted,
                          accessToken = SandboxAccessToken,
                          AggregatorData, SandboxData)

\* One step of a linking attempt as PlaidConnect saw it.
Step(name, ok) == [step |-> name, ok |-> ok]

\* Before PlaidConnect mounts.
IdleLink ==
  [pc |-> "idle", service |-> Null, component |-> Null,
   clientId |-> Undefined, secret |-> Undefined,
   browser |-> NewBrowser, responses |-> {},
   linkToken |-> Null, publicToken |-> Null, accessToken |-> Null,
   data |-> Null, error |-> FALSE, returned |-> {}, steps |-> <<>>]

\* A PlaidService method settled: its responses reached the browser, its
\* private fields are updated and a resolved value is remembered.
Settled(result) ==
  [link EXCEPT
     !.browser = result.browser,
     !.responses = @ \cup result.responses,
     !.returned = @ \cup (IF result.ok THEN {result.value} ELSE {})]

\* PlaidConnect mounts with a signed-in user: the effect calls
\* plaidService.createLinkToken.
Mounted(service, component, clientId, secret) ==
  /\ link.pc = "idle"
  /\ link' = [link EXCEPT !.pc = "creating", !.service = service,
                           !.component = component,
                           !.clientId = clientId, !.secret = secret]
  /\ UNCHANGED <<hookVars, fetch, categorize>>

\* createLinkToken settles; the effect stores the link token, and on a
\* rejection the strict revision sets the error while the sandbox-fallback
\* revision stores a link token of its own.
CreateLinkTokenSettles(invokeOk, remoteOk) ==
  /\ link.pc = "creating"
  /\ LET result == createLinkToken(link.service, link.browser, link.clientId,
                                   link.secret, invokeOk, remoteOk)
         after == Settled(result)
     IN link' = [after EXCEPT
                   !.steps = Append(@, Step("createLinkToken", result.ok)),
                   !.linkToken = IF result.ok THEN result.value
                                 ELSE IF link.component = "sandboxFallback"
                                      THEN SandboxLinkToken
                                      ELSE Null,
                   !.error = ~result.ok /\ link.component = "strict",
                   !.pc = IF result.ok \/ link.component = "sandboxFallback"
                          THEN "ready" ELSE "failed"]
  /\ UNCHANGED <<hookVars, fetch, categorize>>

\* PlaidConnect.handleConnectBank behind its button, which the strict
\* revision disables while an error is shown: returns without a link token;
\* the sandbox-fallback revision starts a timer for a sandbox link token;
\* otherwise Plaid Link opens.
HandleConnectBank ==
  /\ link.pc = "ready"
  /\ ~Falsy(link.linkToken)
  /\ ~link.error
  /\ link' = [link EXCEPT
                 !.pc = IF link.component = "sandboxFallback"
                           /\ link.linkToken = SandboxLinkToken
                        THEN "timer" ELSE "linkUI"]
  /\ UNCHANGED <<hookVars, fetch, categorize>>

\* The timer of the sandbox flow fires: exchangePublicToken is called with a
\* made-up public token.
MockTimerFires ==
  /\ link.pc = "timer"
  /\ link' = [link EXCEPT !.pc = "exchanging", !.publicToken = SandboxPublicToken]
  /\ UNCHANGED <<hookVars, fetch, categorize>>

\* Plaid Link's onSuccess: the user completed the flow, which takes a link
\* token the aggregator issued; exchangePublicToken is called.
LinkOnSuccess ==
  /\ link.pc = "linkUI"
  /\ link.linkToken \notin Fabricated
  /\ link' = [link EXCEPT !.pc = "exchanging", !.publicToken = PublicToken]
  /\ UNCHANGED <<hookVars, fetch, categorize>>

\* Plaid Link's onExit: the user left, or Plaid Link reports an error, which
\* the strict revision shows.
LinkOnExit(err) ==
  /\ link.pc = "linkUI"
  /\ link' = [link EXCEPT !.pc = "ready",
                           !.error = err /\ link.component = "strict"]
  /\ UNCHANGED <<hookVars, fetch, categorize>>

\* exchangePublicToken settles; a resolved access token goes to onSuccess,
\* which stores it and starts the data fetch.
ExchangeSettles(invokeOk, remoteOk) ==
  /\ link.pc = "exchanging"
  /\ LET result == exchangePublicToken(link.service, link.browser, link.publicToken,
                                       link.clientId, link.secret, invokeOk, remoteOk)
         after == Settled(result)
     IN link' = [after EXCEPT
                   !.steps = IF result.ok
                             THEN @ \o <<Step("exchangePublicToken", TRUE),
                                         Step("onSuccess", TRUE)>>
                             ELSE Append(@, Step("exchangePublicToken", FALSE)),
                   !.accessToken = IF result.ok THEN result.value ELSE Null,
                   !.error = ~result.ok /\ link.component = "strict",
                   !.pc = IF result.ok THEN "connected" ELSE "failed"]
  /\ UNCHANGED <<hookVars, fetch, categorize>>

\* getAccountsAndTransactions, called by the fetch that onSuccess started,
\* settles.
DataFetchSettles(invokeOk, remoteOk) ==
  /\ link.pc = "connected"
  /\ LET result == getAccountsAndTransactions(link.service, link.browser,
                                              link.accessToken, link.clientId,
                                              link.secret, invokeOk, remoteOk)
         after == Settled(result)
     IN link' = [after EXCEPT
                   !.steps = Append(@, Step("getAccountsAndTransactions", result.ok)),
                   !.data = IF result.ok THEN result.value ELSE Null,
                   !.pc = IF result.ok THEN "fetched" ELSE "failed"]
  /\ UNCHANGED <<hookVars, fetch, categorize>>

\* The component is mounted again for a new attempt; the PlaidService
\* singleton keeps its private fields, the server its configuration or a
\* new one.
Remounted(clientId, secret) ==
  /\ link.pc \in {"failed", "fetched"}
  /\ link' = [IdleLink EXCEPT !.pc = "creating", !.service = link.service,
                               !.component = link.component,
                               !.clientId = clientId, !.secret = secret,
                               !.browser = link.browser]
  /\ UNCHANGED <<hookVars, fetch, categorize>>

LinkNext ==
  \/ \E service \in ServiceRevisions, component \in ComponentRevisions,
        clientId \in ClientIdValues, secret \in SecretValues :
       Mounted(service, component, clientId, secret)
  \/ \E invokeOk \in BOOLEAN, remoteOk \in BOOLEAN :
       CreateLinkTokenSettles(invokeOk, remoteOk)
  \/ HandleConnectBank
  \/ MockTimerFires
  \/ LinkOnSuccess
  \/ \E err \in BOOLEAN : LinkOnExit(err)
  \/ \E invokeOk \in BOOLEAN, remoteOk \in BOOLEAN :
       ExchangeSettles(invokeOk, remoteOk)
  \/ \E invokeOk \in BOOLEAN, remoteOk \in BOOLEAN :
       DataFetchSettles(invokeOk, remoteOk)
  \/ \E clientId \in ClientIdValues, secret \in SecretValues :
       Remounted(clientId, secret)

(***************************************************************************)
(* Mapping a model result back to a transaction of the batch.              *)
(***************************************************************************)
MaxMatchBatch == 2

MatchDescriptions == {<<"U", "b">>, <<"u", "b", " ", "x">>, <<"Z">>}
MatchAmounts == {6743, -6743}

\* batches of transactions as the hook holds them, ids by position
MatchBatches ==
  UNION {{[i \in 1..n |-> [id |-> i, description |-> d[i], amount |-> a[i],
                           is_manual_category |-> FALSE]] :
            d \in [1..n -> MatchDescriptions], a \in [1..n -> MatchAmounts]} :
         n \in 1..MaxMatchBatch}

\* entries of data.categorizedTransactions
MatchEntries ==
  {[description |-> d, amount |-> a, category |-> c] :
     d \in MatchDescriptions, a \in MatchAmounts, c \in ModelCategories}

NoMatching == [kind |-> "none", batch |-> <<>>, catTrans |-> Null, found |-> NotFound]

\* the find of autoCategorizeTransactions for one entry of the response
AutoLookup ==
  /\ matching.kind = "none"
  /\ \E batch \in MatchBatches, catTrans \in MatchEntries :
    /\ matching' = [kind |-> "auto", batch |-> batch, catTrans |-> catTrans,
                    found |-> FindOriginalAuto(batch, catTrans)]
    /\ UNCHANGED <<dbAccounts, dbTransactions, nextId, accounts, transactions,
                   isLoading, plaidAccessToken, localStorage, clock, sync, run,
                   userEdits, userChoice, serverVars, removal>>

\* the two finds of categorizeTransactions for one entry of the response
ManualLookup ==
  /\ matching.kind = "none"
  /\ \E batch \in MatchBatches, catTrans \in MatchEntries :
    /\ matching' = [kind |-> "manual", batch |-> batch, catTrans |-> catTrans,
                    found |-> FindOriginalManual(batch, catTrans)]
    /\ UNCHANGED <<dbAccounts, dbTransactions, nextId, accounts, transactions,
                   isLoading, plaidAccessToken, localStorage, clock, sync, run,
                   userEdits, userChoice, serverVars, removal>>

MatchNext == AutoLookup \/ ManualLookup

\* ConnectedAccounts right after mount: the mirror of its own useDatabase
\* instance, loaded from the empty store, and no removal under way.
IdleRemoval ==
  [accounts |-> <<>>, transactions |-> <<>>, pending |-> UndefinedId,
   closureAccounts |-> <<>>, outcome |-> "none", last |-> UndefinedId]

\* A browser session right after mount: the store holds no rows of this user
\* yet; the key plaid_access_token is absent or left by an earlier session, and
\* the mount effect has copied it into the token state.
Init ==
  /\ dbAccounts = {}
  /\ dbTransactions = {}
  /\ nextId = 1
  /\ accounts = <<>>
  /\ transactions = <<>>
  /\ isLoading = FALSE
  /\ localStorage \in {Null, AccessToken}
  /\ plaidAccessToken = localStorage
  /\ clock = 0
  /\ sync = [s \in SyncIds |-> IdleSync]
  /\ run = [r \in RunIds |-> IdleRun]
  /\ userEdits = 0
  /\ userChoice = {}
  /\ fetch = IdleFetch
  /\ categorize = IdleCategorize
  /\ link = IdleLink
  /\ removal = IdleRemoval
  /\ matching = NoMatching

(***************************************************************************)
(* usePlaidData.fetchPlaidData                                             *)
(***************************************************************************)
\* accessToken || plaidAccessToken || localStorage.getItem('plaid_access_token')
TokenToUse(accessToken, stateToken, stored) ==
  IF accessToken # Null THEN accessToken
  ELSE IF stateToken # Null THEN stateToken
  ELSE stored

\* the negation of (!tokenToUse || isLoading), isLoading as the closure holds it
PassesGuard(tokenToUse, closureIsLoading) ==
  tokenToUse # Null /\ ~closureIsLoading

\* the invocation right after setIsLoading(true), awaiting the aggregator client
NewSync(closureAccounts) ==
  [IdleSync EXCEPT !.pc = "fetching", !.closureAccounts = closureAccounts]

\* an invocation that returned and has no upsert left in flight keeps only its
\* outcome, which accounts were saved and which failed, and the toasts shown
Settle(rec) ==
  IF rec.pc = "done" /\ rec.pending = {}
  THEN [IdleSync EXCEPT !.pc = "done", !.outcome = rec.outcome,
                        !.failed = rec.failed, !.savedIds = rec.savedIds,
                        !.errorToasts = rec.errorToasts,
                        !.successToasts = rec.successToasts,
                        !.loaded = rec.loaded]
  ELSE rec

\* the success path reaches the toast, which reports
\* transformedTransactions.length, then finally
Succeeded(rec) ==
  Settle([rec EXCEPT !.pc = "done", !.outcome = "ok", !.successToasts = @ + 1,
                     !.loaded = Len(TransformedTransactions(rec.saved))])

\* catch + finally of fetchPlaidData
Failed(rec) ==
  Settle([rec EXCEPT !.pc = "done", !.outcome = "error", !.errorToasts = @ + 1])

\* after Promise.all(accountPromises): transform, then save or finish
Joined(rec) ==
  IF Len(TransformedTransactions(rec.saved)) > 0
  THEN [rec EXCEPT !.pc = "savingTransactions"]
  ELSE Succeeded(rec)

\* the finally clause left out: the flag keeps its value
FinallySkipped(loading) == loading

\* finally { setIsLoading(false) }
Finally(loading) == FALSE

\* the accounts that are removed when a refresh is requested; a history of the
\* invocation that no action reads
Removed(rows) == {r.id : r \in {x \in rows : ~x.is_active}}

\* ConnectedAccounts.handleRefreshAccounts: await fetchPlaidData()
HandleRefreshAccounts ==
  /\ PassesGuard(TokenToUse(Null, plaidAccessToken, localStorage), isLoading)
  /\ FreeSyncs # {}
  /\ sync' = [sync EXCEPT ![FirstFree(FreeSyncs)] =
                 [NewSync(accounts) EXCEPT !.removedAtStart = Removed(dbAccounts)]]
  /\ isLoading' = TRUE
  /\ UNCHANGED <<dbAccounts, dbTransactions, nextId, accounts, transactions,
                 plaidAccessToken, localStorage, clock, run, userEdits,
                 userChoice, serverVars, removal, matching>>

\* ConnectedAccounts.handleConnectSuccess: handlePlaidSuccess(accessToken), not
\* awaited, then fetchPlaidData(); both calls read the state of one render
HandleConnectSuccess ==
  LET first == PassesGuard(TokenToUse(AccessToken, plaidAccessToken, AccessToken),
                           isLoading)
      second == PassesGuard(TokenToUse(Null, plaidAccessToken, AccessToken),
                            isLoading)
      started == (IF first THEN 1 ELSE 0) + (IF second THEN 1 ELSE 0)
      s1 == FirstFree(FreeSyncs)
      s2 == FirstFree(FreeSyncs \ {s1})
  IN  /\ Cardinality(FreeSyncs) >= started
      /\ localStorage' = AccessToken
      /\ plaidAccessToken' = AccessToken
      /\ sync' = IF started = 2
                 THEN [sync EXCEPT ![s1] = NewSync(accounts), ![s2] = NewSync(accounts)]
                 ELSE IF started = 1
                 THEN [sync EXCEPT ![s1] = NewSync(accounts)]
                 ELSE sync
      /\ isLoading' = IF started > 0 THEN TRUE ELSE isLoading
      /\ UNCHANGED <<dbAccounts, dbTransactions, nextId, accounts, transactions,
                     clock, run, userEdits, userChoice, serverVars, removal, matching>>

\* useDatabase.saveAccount up to its first await: the row it returns at once
ExistingAccount(closureAccounts, extId) ==
  FindFirst(closureAccounts, LAMBDA a : a.external_account_id = extId)

\* plaidService.getAccountsAndTransactions resolves with the balances the bank
\* reports now; data.accounts.map(saveAccount)
FetchResolves(s) ==
  /\ sync[s].pc = "fetching"
  /\ LET known == {a \in ExtAccountIds :
                     ExistingAccount(sync[s].closureAccounts, a) # NotFound}
         rec == [sync[s] EXCEPT
                   !.pc = "savingAccounts",
                   !.balances = [a \in ExtAccountIds |-> BalanceAt(a, clock + 1)],
                   !.at = clock + 1,
                   !.prior = dbAccounts,
                   !.saved = {ExistingAccount(sync[s].closureAccounts, a) : a \in known},
                   !.savedIds = known,
                   !.pending = ExtAccountIds \ known]
         next == IF rec.pending = {} THEN Joined(rec) ELSE rec
     IN  /\ sync' = [sync EXCEPT ![s] = next]
         /\ isLoading' = IF next.pc = "done" THEN Finally(isLoading) ELSE isLoading
  /\ clock' = clock + 1
  /\ UNCHANGED <<dbAccounts, dbTransactions, nextId, accounts, transactions,
                 plaidAccessToken, localStorage, run, userEdits, userChoice, serverVars, removal, matching>>

\* plaidService.getAccountsAndTransactions rejects
FetchRejects(s) ==
  /\ sync[s].pc = "fetching"
  /\ sync' = [sync EXCEPT ![s] = Failed(@)]
  /\ isLoading' = Finally(isLoading)
  /\ UNCHANGED <<dbAccounts, dbTransactions, nextId, accounts, transactions,
                 plaidAccessToken, localStorage, clock, run, userEdits,
                 userChoice, serverVars, removal, matching>>

\* databaseService.saveAccount resolves for one account; setAccounts appends
AccountUpsertResolves(s, a) ==
  /\ a \in sync[s].pending
  /\ LET u == UpsertAccountRow(dbAccounts,
                               AccountPayload(a, sync[s].balances[a], sync[s].at),
                               nextId)
         rec == [sync[s] EXCEPT !.pending = @ \ {a}, !.saved = @ \cup {u.row},
                                !.savedIds = @ \cup {a}]
         next == IF rec.pc = "savingAccounts" /\ rec.pending = {}
                 THEN Joined(rec) ELSE Settle(rec)
     IN  /\ dbAccounts' = u.rows
         /\ nextId' = u.nextId
         /\ accounts' = Append(accounts, u.row)
         /\ sync' = [sync EXCEPT ![s] = next]
         /\ isLoading' = IF sync[s].pc # "done" /\ next.pc = "done"
                         THEN Finally(isLoading)
                         ELSE isLoading
  /\ UNCHANGED <<dbTransactions, transactions, plaidAccessToken, localStorage,
                 clock, run, userEdits, userChoice, serverVars, removal, matching>>

\* databaseService.saveAccount rejects for one account: useDatabase.saveAccount
\* shows its toast and rethrows, Promise.all rejects
AccountUpsertRejects(s, a) ==
  /\ a \in sync[s].pending
  /\ LET rec == [sync[s] EXCEPT !.pending = @ \ {a}, !.failed = @ \cup {a},
                                !.errorToasts = @ + 1]
     IN  /\ sync' = [sync EXCEPT ![s] = IF rec.pc = "savingAccounts"
                                        THEN Failed(rec) ELSE Settle(rec)]
         /\ isLoading' = IF rec.pc = "savingAccounts" THEN Finally(isLoading)
                         ELSE isLoading
  /\ UNCHANGED <<dbAccounts, dbTransactions, nextId, accounts, transactions,
                 plaidAccessToken, localStorage, clock, run, userEdits,
                 userChoice, serverVars, removal, matching>>

\* savedTransactions.filter(t => !t.category_name || !t.is_manual_category)
Uncategorized(saved) ==
  SelectSeq(saved, LAMBDA t : t.category_name = Null \/ ~t.is_manual_category)

\* saveTransactions resolves; setTimeout(autoCategorizeTransactions); toast; finally
TransactionsUpsertResolves(s) ==
  /\ sync[s].pc = "savingTransactions"
  /\ \E keepMissing \in BOOLEAN :
       LET u == UpsertTransactionRows(dbTransactions,
                                      TransformedTransactions(sync[s].saved),
                                      nextId, keepMissing)
           batch == Uncategorized(u.saved)
       IN  /\ dbTransactions' = u.rows
           /\ nextId' = u.nextId
           /\ transactions' = MirrorAfterSave(transactions, u.saved)
           /\ run' = IF Len(batch) > 0
                     THEN [run EXCEPT ![s] =
                             [IdleRun EXCEPT !.pc = "scheduled", !.batch = batch]]
                     ELSE run
  /\ sync' = [sync EXCEPT ![s] = Succeeded(@)]
  /\ isLoading' = Finally(isLoading)
  /\ UNCHANGED <<dbAccounts, accounts, plaidAccessToken, localStorage, clock,
                 userEdits, userChoice, serverVars, removal, matching>>

\* saveTransactions rejects: useDatabase.saveTransactions shows its toast and
\* rethrows
TransactionsUpsertRejects(s) ==
  /\ sync[s].pc = "savingTransactions"
  /\ sync' = [sync EXCEPT ![s] = Failed([@ EXCEPT !.errorToasts = @ + 1])]
  /\ isLoading' = Finally(isLoading)
  /\ UNCHANGED <<dbAccounts, dbTransactions, nextId, accounts, transactions,
                 plaidAccessToken, localStorage, clock, run, userEdits,
                 userChoice, serverVars, removal, matching>>

(***************************************************************************)
(* Categorization runs.                                                    *)
(***************************************************************************)
ManualIds(rows) == {r.id : r \in {x \in rows : x.is_manual_category}}

\* descriptions the remote function may put in a result
ResponseDescriptions ==
  {ExtTransactions[i].name : i \in 1..Len(ExtTransactions)} \cup {<<"U", "b", " ", "x">>}

\* data.categorizedTransactions holds one entry per transaction of the batch,
\* with the amount of that transaction, any description and any category (or
\* none): the entries the function may answer with for the i-th transaction
ResponseEntries(batch, i) ==
  {[description |-> d, amount |-> batch[i].amount, category |-> c] :
     d \in ResponseDescriptions, c \in ModelCategories \cup {Null}}

\* the timer set by fetchPlaidData fires: autoCategorizeTransactions(batch)
TimerFires(r) ==
  /\ run[r].pc = "scheduled"
  /\ run' = [run EXCEPT ![r] = [@ EXCEPT !.pc = "invoked",
                                         !.manualAtStart = ManualIds(dbTransactions)]]
  /\ UNCHANGED <<dbAccounts, dbTransactions, nextId, accounts, transactions,
                 isLoading, plaidAccessToken, localStorage, clock, sync,
                 userEdits, userChoice, serverVars, removal, matching>>

\* usePlaidData.categorizeTransactions (the "AI Categorize" button, disabled
\* while isLoading)
CategorizeTransactions ==
  /\ ~isLoading
  /\ Len(transactions) > 0
  /\ run[ManualRunId].pc = "idle"
  /\ run' = [run EXCEPT ![ManualRunId] =
               [IdleRun EXCEPT !.pc = "invoked", !.kind = "manual",
                               !.batch = transactions,
                               !.manualAtStart = ManualIds(dbTransactions)]]
  /\ isLoading' = TRUE
  /\ UNCHANGED <<dbAccounts, dbTransactions, nextId, accounts, transactions,
                 plaidAccessToken, localStorage, clock, sync, userEdits,
                 userChoice, serverVars, removal, matching>>

\* the sets of updateTransactionCategory calls a run may issue, over the
\* responses the function may give for the transactions from the i-th on
RECURSIVE IssuedFrom(_, _, _)
IssuedFrom(kind, batch, i) ==
  IF i > Len(batch) THEN {{}}
  ELSE {a \cup b :
          a \in {CategoryUpdates(kind, batch, <<e>>) : e \in ResponseEntries(batch, i)},
          b \in IssuedFrom(kind, batch, i + 1)}

IssuedUpdates(kind, batch) == IssuedFrom(kind, batch, 1)

\* the category each updated row ends with when several updates race
Winners(updates) ==
  {w \in [{u.id : u \in updates} -> {u.category : u \in updates}] :
     \A id \in DOMAIN w : \E u \in updates : u.id = id /\ u.category = w[id]}

ApplyUpdatesRows(rows, w) ==
  {IF r.id \in DOMAIN w
   THEN [r EXCEPT !.category_name = w[r.id], !.is_manual_category = TRUE]
   ELSE r : r \in rows}

ApplyUpdatesMirror(prev, w) ==
  [i \in 1..Len(prev) |->
     IF prev[i].id \in DOMAIN w
     THEN [prev[i] EXCEPT !.category_name = w[prev[i].id], !.is_manual_category = TRUE]
     ELSE prev[i]]

\* the remote function answers with data: the updates are issued and awaited;
\* any of them may fail, and useDatabase.updateTransactionCategory then shows its
\* toast and rethrows
CategorizeResolves(r) ==
  /\ run[r].pc = "invoked"
  /\ \E issued \in IssuedUpdates(run[r].kind, run[r].batch) :
       \E done \in SUBSET issued :
         \E w \in Winners(done) :
           /\ dbTransactions' = ApplyUpdatesRows(dbTransactions, w)
           /\ transactions' = ApplyUpdatesMirror(transactions, w)
           /\ run' = [run EXCEPT ![r] = [DoneRun EXCEPT !.errorToast = done # issued]]
  /\ isLoading' = IF run[r].kind = "manual" THEN FALSE ELSE isLoading
  /\ UNCHANGED <<dbAccounts, nextId, accounts, plaidAccessToken, localStorage,
                 clock, sync, userEdits, userChoice, serverVars, removal, matching>>

\* supabase.functions.invoke returns an error: caught; only the button's run
\* shows a toast
CategorizeRejects(r) ==
  /\ run[r].pc = "invoked"
  /\ run' = [run EXCEPT ![r] = [DoneRun EXCEPT !.errorToast = (run[r].kind = "manual")]]
  /\ isLoading' = IF run[r].kind = "manual" THEN FALSE ELSE isLoading
  /\ UNCHANGED <<dbAccounts, dbTransactions, nextId, accounts, transactions,
                 plaidAccessToken, localStorage, clock, sync, userEdits,
                 userChoice, serverVars, removal, matching>>

(***************************************************************************)
(* The user.                                                               *)
(***************************************************************************)
\* the user overrides the category of a listed transaction:
\* useDatabase.updateTransactionCategory(transactionId, categoryName)
SetCategory(i, cat) ==
  /\ userEdits < MaxUserEdits
  /\ i \in 1..Len(transactions)
  /\ LET id == transactions[i].id
     IN  /\ dbTransactions' = UpdateCategoryRows(dbTransactions, id, cat)
         /\ transactions' = UpdateCategoryMirror(transactions, id, cat)
         /\ userChoice' = {c \in userChoice : c[1] # id} \cup {<<id, cat>>}
  /\ userEdits' = userEdits + 1
  /\ UNCHANGED <<dbAccounts, nextId, accounts, isLoading, plaidAccessToken,
                 localStorage, clock, sync, run, serverVars, removal, matching>>

(***************************************************************************)
(* Removing an account: DatabaseService.getAccounts, getTransactions and   *)
(* deleteAccount, useDatabase.deleteAccount in the instance that           *)
(* ConnectedAccounts holds, and ConnectedAccounts.handleRemoveAccount.     *)
(***************************************************************************)

RECURSIVE SetToSeq(_)
SetToSeq(S) ==
  IF S = {} THEN <<>>
  ELSE LET x == CHOOSE y \in S : TRUE IN <<x>> \o SetToSeq(S \ {x})

RECURSIVE InsertByConnectedAt(_, _)
InsertByConnectedAt(sorted, x) ==
  IF sorted = <<>> THEN <<x>>
  ELSE IF Head(sorted).connected_at >= x.connected_at
       THEN <<Head(sorted)>> \o InsertByConnectedAt(Tail(sorted), x)
       ELSE <<x>> \o sorted

RECURSIVE OrderByConnectedAt(_)
OrderByConnectedAt(s) ==
  IF s = <<>> THEN <<>>
  ELSE InsertByConnectedAt(OrderByConnectedAt(Tail(s)), Head(s))

\* DatabaseService.getAccounts: .eq('is_active', true), newest connection first
getAccounts(accountRows) ==
  OrderByConnectedAt(SetToSeq({r \in accountRows : r.is_active}))

\* DatabaseService.getTransactions: inner join with the account, the optional
\* account filter, .eq('accounts.is_active', true), newest first
getTransactions(accountRows, transactionRows, accountId) ==
  LET joined == {t \in transactionRows :
                   \E a \in accountRows : a.id = t.account_id /\ a.is_active}
      filtered == IF accountId # UndefinedId
                  THEN {t \in joined : t.account_id = accountId}
                  ELSE joined
  IN  SortByDateDesc(SetToSeq(filtered))

\* DatabaseService.deleteAccount: update({ is_active: false }).eq('id', accountId)
deleteAccountRows(accountRows, accountId) ==
  {[r EXCEPT !.is_active = IF r.id = accountId THEN FALSE ELSE @] : r \in accountRows}

\* the state updaters of useDatabase.deleteAccount
WithoutAccount(mirror, accountId) ==
  SelectSeq(mirror, LAMBDA a : a.id # accountId)

WithoutTransactionsOf(mirror, accountId) ==
  SelectSeq(mirror, LAMBDA t : t.account_id # accountId)

ShownAccountIds == {accounts[i].id : i \in 1..Len(accounts)}

\* ConnectedAccounts.handleRemoveAccount up to its await: the trash button of
\* an account in the list that usePlaidData supplies.
HandleRemoveAccount(accountId) ==
  /\ removal.pending = UndefinedId
  /\ accountId \in ShownAccountIds
  /\ removal' = [removal EXCEPT !.pending = accountId,
                                 !.closureAccounts = accounts]
  /\ UNCHANGED <<dbAccounts, dbTransactions, nextId, accounts, transactions,
                 isLoading, plaidAccessToken, localStorage, clock, sync, run,
                 userEdits, userChoice, serverVars, matching>>

\* useDatabase.deleteAccount resolves: the row is deactivated, the instance's
\* own mirror is filtered, and handleRemoveAccount removes the stored token if
\* the accounts of its render hold no other account.
DeleteAccountResolves ==
  /\ removal.pending # UndefinedId
  /\ LET accountId == removal.pending
         remainingAccounts == WithoutAccount(removal.closureAccounts, accountId)
     IN  /\ dbAccounts' = deleteAccountRows(dbAccounts, accountId)
         /\ removal' = [removal EXCEPT
                          !.accounts = WithoutAccount(@, accountId),
                          !.transactions = WithoutTransactionsOf(@, accountId),
                          !.pending = UndefinedId,
                          !.closureAccounts = <<>>,
                          !.outcome = "removed",
                          !.last = accountId]
         /\ localStorage' = IF Len(remainingAccounts) = 0 THEN Null
                            ELSE localStorage
  /\ UNCHANGED <<dbTransactions, nextId, accounts, transactions, isLoading,
                 plaidAccessToken, clock, sync, run, userEdits, userChoice,
                 serverVars, matching>>

\* databaseService.deleteAccount rejects: the toast, the rethrow and the
\* catch of handleRemoveAccount.
DeleteAccountRejects ==
  /\ removal.pending # UndefinedId
  /\ removal' = [removal EXCEPT !.pending = UndefinedId,
                                 !.closureAccounts = <<>>,
                                 !.outcome = "failed",
                                 !.last = removal.pending]
  /\ UNCHANGED <<dbAccounts, dbTransactions, nextId, accounts, transactions,
                 isLoading, plaidAccessToken, localStorage, clock, sync, run,
                 userEdits, userChoice, serverVars, matching>>

\* The page is loaded again while nothing is in flight: both useDatabase
\* instances run loadAllData, usePlaidData reads the stored token, and the
\* timers of the old page are gone.
PageReloaded ==
  /\ removal.pending = UndefinedId
  /\ \A s \in SyncIds : ~InFlight(s) /\ sync[s].pending = {}
  /\ accounts' = getAccounts(dbAccounts)
  /\ transactions' = getTransactions(dbAccounts, dbTransactions, UndefinedId)
  /\ removal' = [IdleRemoval EXCEPT
                   !.accounts = getAccounts(dbAccounts),
                   !.transactions = getTransactions(dbAccounts, dbTransactions,
                                                    UndefinedId)]
  /\ plaidAccessToken' = localStorage
  /\ isLoading' = FALSE
  /\ run' = [r \in RunIds |-> IF run[r].pc \in {"scheduled", "invoked"}
                               THEN DoneRun ELSE run[r]]
  /\ UNCHANGED <<dbAccounts, dbTransactions, nextId, localStorage, clock, sync,
                 userEdits, userChoice, serverVars, matching>>

Next ==
  \/ HandleConnectSuccess
  \/ HandleRefreshAccounts
  \/ \E s \in SyncIds : FetchResolves(s)
  \/ \E s \in SyncIds : FetchRejects(s)
  \/ \E s \in SyncIds, a \in ExtAccountIds : AccountUpsertResolves(s, a)
  \/ \E s \in SyncIds, a \in ExtAccountIds : AccountUpsertRejects(s, a)
  \/ \E s \in SyncIds : TransactionsUpsertResolves(s)
  \/ \E s \in SyncIds : TransactionsUpsertRejects(s)
  \/ \E r \in RunIds : TimerFires(r)
  \/ CategorizeTransactions
  \/ \E r \in RunIds : CategorizeResolves(r)
  \/ \E r \in RunIds : CategorizeRejects(r)
  \/ \E i \in 1..(2 * MaxSyncs), cat \in UserCategories : SetCategory(i, cat)

Spec == Init /\ [][Next]_vars

\* The sync cycle alone: fetchPlaidData invocations and the store.
SyncNext ==
  \/ HandleConnectSuccess
  \/ HandleRefreshAccounts
  \/ \E s \in SyncIds : FetchResolves(s)
  \/ \E s \in SyncIds : FetchRejects(s)
  \/ \E s \in SyncIds, a \in ExtAccountIds : AccountUpsertResolves(s, a)
  \/ \E s \in SyncIds, a \in ExtAccountIds : AccountUpsertRejects(s, a)
  \/ \E s \in SyncIds : TransactionsUpsertResolves(s)
  \/ \E s \in SyncIds : TransactionsUpsertRejects(s)

SpecSync == Init /\ [][SyncNext]_vars

\* every awaited call of one invocation settles: the fetch, each account
\* upsert and the transaction upsert reject or resolve
FetchSettles(s) == FetchRejects(s) \/ FetchResolves(s)

AccountUpsertSettles(s) ==
  \E a \in ExtAccountIds : AccountUpsertRejects(s, a) \/ AccountUpsertResolves(s, a)

TransactionsUpsertSettles(s) ==
  TransactionsUpsertRejects(s) \/ TransactionsUpsertResolves(s)

SpecSyncFair ==
  /\ SpecSync
  /\ \A s \in SyncIds : /\ WF_vars(FetchSettles(s))
                         /\ WF_vars(AccountUpsertSettles(s))
                         /\ WF_vars(TransactionsUpsertSettles(s))

\* One invocation of the fetch-plaid-data function against a server that
\* answers as it likes.
FetchArbitraryNext ==
  \/ \E maxTransactions \in MaxTransactionsChoices, configured \in BOOLEAN :
       FetchCalled("arbitrary", 0, maxTransactions, configured)
  \/ \E ok \in BOOLEAN : AccountsAnswered(ok)
  \/ PageAnswered
  \/ PageFailed

SpecFetchArbitrary == Init /\ [][FetchArbitraryNext]_vars

\* One invocation of the fetch-plaid-data function.
SpecFetch == Init /\ [][FetchNext]_vars

\* One invocation of the categorize-transactions function.
SpecCategorize == Init /\ [][CategorizeNext]_vars

\* The sync cycle together with account removal and page reloads.
RemoveNext ==
  \/ SyncNext
  \/ \E accountId \in 1..Cardinality(ExtAccountIds) : HandleRemoveAccount(accountId)
  \/ DeleteAccountResolves
  \/ DeleteAccountRejects
  \/ PageReloaded

SpecRemove == Init /\ [][RemoveNext]_vars

\* Lookups of model results in a batch, by both categorization paths.
SpecMatch == Init /\ [][MatchNext]_vars

\* Linking attempts: PlaidConnect, PlaidService and the functions behind them.
SpecLink == Init /\ [][LinkNext]_vars


(***************************************************************************)
(* Properties.                                                             *)
(***************************************************************************)
OtherSyncsIdle(s) == \A o \in SyncIds \ {s} : sync[o].pc = "idle"

\* C1: a categorization run that writes its results leaves the category_name
\* of every transaction that was manual when the run started as it was.
C1_ManualCategoryKept ==
  [][\A r \in RunIds :
       (run[r].pc = "invoked" /\ run'[r].pc = "done") =>
         \A row \in dbTransactions : row.id \in run[r].manualAtStart =>
           \E after \in dbTransactions' : /\ after.id = row.id
                                          /\ after.category_name = row.category_name]_vars

\* C2: every transaction the user set a category on is still manual and still
\* carries the category the user chose.
C2_UserChoiceKept ==
  \A c \in userChoice :
    \E row \in dbTransactions : /\ row.id = c[1]
                                /\ row.is_manual_category
                                /\ row.category_name = c[2]

\* C3: whatever syncs ran, the store holds at most one account row per
\* external_account_id and exactly one transaction row per
\* (external_transaction_id, account); a repeated sync adds no rows.
C3_UpsertIdempotent ==
  /\ \A a \in ExtAccountIds :
       Cardinality({r \in dbAccounts : r.external_account_id = a}) <= 1
  /\ \A r \in dbTransactions :
       Cardinality({o \in dbTransactions :
                      /\ o.external_transaction_id = r.external_transaction_id
                      /\ o.account_id = r.account_id}) = 1
  /\ Cardinality(dbAccounts) <= Cardinality(ExtAccountIds)
  /\ Cardinality(dbTransactions) <= Len(ExtTransactions)

\* two syncs completed and the store holds one row per fetched entity
C3_Witness ==
  /\ \A s \in {1, 2} : sync[s].pc = "done" /\ sync[s].outcome = "ok"
  /\ Cardinality(dbAccounts) = Cardinality(ExtAccountIds)
  /\ Cardinality(dbTransactions) = Cardinality(Resolvable)

\* C4: once a sync that found an account already persisted with another
\* balance has saved its accounts, the row saveAccount returned carries the
\* balance and last_synced_at of this fetch and the store row is no older.
C4_ResyncOverwrites ==
  \A s \in SyncIds : sync[s].pc = "savingTransactions" =>
    \A a \in ExtAccountIds :
      (\E p \in sync[s].prior : /\ p.external_account_id = a
                                /\ p.balance # sync[s].balances[a])
      => /\ \A row \in sync[s].saved : row.external_account_id = a =>
              /\ row.balance = sync[s].balances[a]
              /\ row.last_synced_at = sync[s].at
         /\ \A row \in dbAccounts : row.external_account_id = a =>
              row.last_synced_at >= sync[s].at

\* C5: every persisted transaction carries the negation of the amount the
\* aggregator reports for it: debits (X > 0) negative, credits positive.
C5_AmountNegated ==
  \A r \in dbTransactions :
    LET x == ExtTx(r.external_transaction_id).amount
    IN  /\ r.amount = 0 - x
        /\ x > 0 => r.amount < 0
        /\ x < 0 => r.amount > 0

\* a debit and a credit are persisted
C5_Witness ==
  /\ \E r \in dbTransactions : r.external_transaction_id = "tx_1" /\ r.amount = -6743
  /\ \E r \in dbTransactions : r.external_transaction_id = "tx_2" /\ r.amount = 280000

\* C9: when, in the only sync so far, the upsert of one account failed and the
\* upserts of the others succeeded, no transaction of the failed account is
\* persisted and every transaction of a saved account is.
C9_FailedUpsertIsolated ==
  \A s \in SyncIds :
    (/\ sync[s].pc = "done" /\ sync[s].pending = {}
     /\ sync[s].failed # {} /\ sync[s].savedIds # {}
     /\ OtherSyncsIdle(s))
    => \A i \in 1..Len(ExtTransactions) :
         LET t == ExtTransactions[i]
             persisted == \E r \in dbTransactions :
                            r.external_transaction_id = t.transaction_id
         IN  /\ t.account_id \in sync[s].failed => ~persisted
             /\ t.account_id \in sync[s].savedIds => persisted

\* C10: at most one fetchPlaidData invocation is past the guard and not yet
\* finished.
C10_AtMostOneInFlight == Cardinality({s \in SyncIds : InFlight(s)}) <= 1

\* Math.ceil(n / batchSize)
Pages(n) == (n + batchSize - 1) \div batchSize

\* the fetch served by a well-behaved server with T <= maxTransactions returned
WellBehavedDone ==
  /\ fetch.pc = "done" /\ fetch.mode = "well"
  /\ fetch.response.status = 200
  /\ fetch.total <= fetch.maxTransactions

OffsetsInSteps ==
  \A i \in 1..Len(fetch.requests) : fetch.requests[i].offset = (i - 1) * batchSize

\* C6 as stated: on a well-behaved server reporting T <= maxTransactions the
\* fetch issues exactly ceil(T/500) requests at offsets 0, 500, ... and returns
\* exactly T transactions.
C6_Original ==
  WellBehavedDone =>
    /\ fetch.response.requestCount = Pages(fetch.total)
    /\ Len(fetch.requests) = Pages(fetch.total)
    /\ OffsetsInSteps
    /\ Length(fetch.response.transactions) = fetch.total

\* C6 amended: the same for 1 <= T <= min(maxTransactions, 5000); for T = 0 and
\* maxTransactions > 0 one request is issued and nothing returned; for T > 5000
\* the fetch stops after 10 requests with 5000 transactions.
C6_PaginationWithinCap ==
  WellBehavedDone =>
    LET expected == IF fetch.maxTransactions = 0 THEN 0
                    ELSE IF fetch.total = 0 THEN 1
                    ELSE Min(Pages(fetch.total), MaxRequestCount)
    IN  /\ fetch.response.requestCount = expected
        /\ Len(fetch.requests) = expected
        /\ OffsetsInSteps
        /\ Length(fetch.response.transactions)
             = Min(fetch.total, MaxRequestCount * batchSize)

\* T = 1200, maxTransactions = 2000: 3 requests, 1200 transactions
C6_Witness ==
  /\ WellBehavedDone
  /\ fetch.total = 1200 /\ fetch.maxTransactions = DefaultMaxTransactions
  /\ fetch.response.requestCount = 3
  /\ Length(fetch.response.transactions) = 1200

GreedyDone ==
  /\ fetch.pc = "done" /\ fetch.mode = "greedy"
  /\ fetch.response.status = 200

\* C7 as stated: on a server that always reports 999999 and returns full
\* pages the fetch stops after exactly 10 page requests.
C7_Original == GreedyDone => fetch.response.requestCount = MaxRequestCount

\* C7 amended: on such a server the fetch stops after
\* min(10, ceil(maxTransactions/500)) page requests, which is exactly 10 when
\* maxTransactions > 4500, and it never issues more than 10.
C7_StopsAtCapOrMax ==
  /\ fetch.mode = "greedy" => fetch.requestCount <= MaxRequestCount
  /\ GreedyDone =>
       /\ fetch.response.requestCount
            = Min(MaxRequestCount, Pages(fetch.maxTransactions))
       /\ fetch.maxTransactions > (MaxRequestCount - 1) * batchSize
            => fetch.response.requestCount = MaxRequestCount

\* the cap ends a fetch that asked for more than ten pages
C7_Witness ==
  /\ GreedyDone
  /\ fetch.maxTransactions > MaxRequestCount * batchSize
  /\ fetch.response.requestCount = MaxRequestCount
  /\ Length(fetch.response.transactions) = MaxRequestCount * batchSize

\* the accounts were fetched and a later page request failed
PageFailureDone ==
  fetch.pc = "done" /\ fetch.accountsFetched /\ fetch.pageFailed

\* C8 as stated: after a page failure the call returns the fetched accounts
\* with no transactions and an error note instead of failing.
C8_Original ==
  PageFailureDone =>
    /\ fetch.response.accounts
    /\ fetch.response.transactions = <<>>
    /\ fetch.response.error
    /\ fetch.clientResult = "resolves"

\* C8 amended: after a page failure the function answers with status 500 and
\* only an error message, neither accounts nor transactions, and the client's
\* getAccountsAndTransactions rejects.
C8_PageFailureFailsCall ==
  PageFailureDone =>
    /\ fetch.response.status = 500
    /\ fetch.response.error
    /\ ~fetch.response.accounts
    /\ fetch.response.transactions = <<>>
    /\ fetch.clientResult = "rejects"

\* a page after the first fails, with pages already collected
C8_Witness ==
  /\ PageFailureDone
  /\ fetch.requestCount >= 2
  /\ Length(fetch.allTransactions) > 0
  /\ fetch.clientResult = "rejects"

\* C11: an auto-categorization run never shows an error toast, and the sync
\* that scheduled it has already completed with its success toast and stays
\* successful whatever the run does.
C11_CategorizationBestEffort ==
  \A s \in SyncIds :
    /\ run[s].pc = "done" => ~run[s].errorToast
    /\ run[s].pc # "idle" =>
         /\ sync[s].pc = "done" /\ sync[s].outcome = "ok"
         /\ sync[s].errorToasts = 0 /\ sync[s].successToasts = 1

\* C19: a sync that failed and has no upsert left in flight has shown exactly
\* one failure toast and no success toast.
C19_SingleFailureNotification ==
  \A s \in SyncIds :
    (sync[s].pc = "done" /\ sync[s].pending = {} /\ sync[s].outcome = "error")
    => sync[s].errorToasts = 1 /\ sync[s].successToasts = 0

TimHortonsCoffee == <<"T", "i", "m", " ", "H", "o", "r", "t", "o", "n", "s", " ", "C", "o", "f", "f", "e", "e">>

TimHortons == <<"T", "i", "m", " ", "H", "o", "r", "t", "o", "n", "s">>

\* the function answered after the remote call returned a non-success status
FellBack == categorize.pc = "done" /\ categorize.remote = "status"

\* C12: when the remote call fails, every transaction of the batch gets the
\* category the fallback gives it when classified alone, equal inputs get equal
\* categories, and "Tim Hortons Coffee" at merchant "Tim Hortons" is always
\* "Food & Dining".
C12_FallbackDeterministic ==
  FellBack =>
    LET batch == categorize.batch
        out == categorize.response.categorizedTransactions
    IN  /\ categorize.response.status = 200
        /\ Len(out) = Len(batch)
        /\ \A i \in 1..Len(batch) :
             /\ out[i].category
                  = FallbackCategorize(<<batch[i]>>)[1].category
             /\ (batch[i].description = TimHortonsCoffee /\ batch[i].merchant = TimHortons)
                  => out[i].category = "Food & Dining"
             /\ \A j \in 1..Len(batch) :
                  batch[i] = batch[j] => out[i].category = out[j].category

\* the Tim Hortons transaction classified next to one of another category
C12_Witness ==
  /\ FellBack
  /\ Len(categorize.batch) = 2
  /\ categorize.batch[1].description = TimHortonsCoffee
  /\ categorize.batch[1].merchant = TimHortons
  /\ categorize.response.categorizedTransactions[1].category = "Food & Dining"
  /\ categorize.response.categorizedTransactions[2].category = "Transportation"

\* the text of the remote model is a JSON array once trimmed and unfenced
ParsesAsArray(content) ==
  /\ Parses(StripFences(Trim(content)))
  /\ Trim(StripFences(Trim(content)))[1].kind = "array"

\* C13: when the remote call returns a non-success status or a text that does
\* not parse as a JSON array, the function answers successfully with the
\* categories of the rule table.
C13_FallbackOnEveryFailure ==
  (/\ categorize.pc = "done"
   /\ \/ categorize.remote = "status"
      \/ categorize.remote = "content" /\ ~ParsesAsArray(categorize.content))
  => /\ categorize.response.status = 200
     /\ ~categorize.response.error
     /\ categorize.response.categorizedTransactions
          = FallbackCategorize(categorize.batch)

\* C15: whenever the client id or the secret is unset or empty in the server's
\* configuration, every answer of get-plaid-credentials is an ordinary
\* status-200 result tagged "not configured" whose client id and secret are
\* both null, also when one of the two values was present.
C15_CredentialGate ==
  (Falsy(link.clientId) \/ Falsy(link.secret)) =>
    \A r \in link.responses :
      r.from = "get-plaid-credentials" =>
        /\ r.status = 200
        /\ r.error = NotConfigured
        /\ r.client_id = Null
        /\ r.secret = Null

\* One of the two values is configured, the other is not, and
\* get-plaid-credentials has answered.
C15_Witness ==
  /\ \/ link.clientId = PlaidClientId /\ Falsy(link.secret)
     \/ Falsy(link.clientId) /\ link.secret = PlaidSecret
  /\ \E r \in link.responses :
       r.from = "get-plaid-credentials" /\ r.error = NotConfigured

\* C14: no response of a server-side function that reached the browser
\* carries the aggregator's client id or secret, and PlaidService holds
\* neither of them in the browser.
C14_SecretConfinement ==
  /\ \A r \in link.responses :
       r.client_id \notin {PlaidClientId} /\ r.secret \notin {PlaidSecret}
  /\ link.browser.clientId # PlaidClientId
  /\ link.browser.secret # PlaidSecret

\* C16: createLinkToken, exchangePublicToken and getAccountsAndTransactions
\* never resolve with a made-up token or with canned accounts and
\* transactions: every value they returned came from the aggregator.
C16_NoMockSubstitution == link.returned \cap Fabricated = {}

\* C20: within one linking attempt nothing runs after a failed step, the
\* exchange runs only after createLinkToken resolved, and onSuccess and the
\* data fetch only after the exchange resolved.
C20_LinkFlowOrder ==
  LET steps == link.steps
      Before(i, name) == \E j \in 1..(i - 1) : steps[j] = Step(name, TRUE)
  IN \A i \in 1..Len(steps) :
       /\ ~steps[i].ok => i = Len(steps)
       /\ steps[i].step = "exchangePublicToken" => Before(i, "createLinkToken")
       /\ steps[i].step \in {"onSuccess", "getAccountsAndTransactions"} =>
            Before(i, "exchangePublicToken")

\* ids and account ids held by a mirror
IdsOf(mirror) == {mirror[i].id : i \in 1..Len(mirror)}
AccountIdsOf(mirror) == {mirror[i].account_id : i \in 1..Len(mirror)}

\* the internal identifiers handed out so far
HandedOut == 1..(nextId - 1)

\* C17: removing an account only clears is_active on its row, so that every
\* account and transaction row ever stored is still there; and while the row
\* is inactive, getAccounts does not return it, getTransactions with or
\* without an account filter returns none of its transactions, and neither
\* the mirror that usePlaidData supplies nor the mirror of the removing
\* useDatabase instance holds the account or one of its transactions.
C17_SoftDelete ==
  /\ {r.id : r \in dbAccounts} \cup {t.id : t \in dbTransactions} = HandedOut
  /\ \A a \in dbAccounts :
       ~a.is_active =>
         /\ a.id \notin IdsOf(getAccounts(dbAccounts))
         /\ a.id \notin AccountIdsOf(getTransactions(dbAccounts, dbTransactions,
                                                    UndefinedId))
         /\ getTransactions(dbAccounts, dbTransactions, a.id) = <<>>
         /\ a.id \notin IdsOf(removal.accounts)
         /\ a.id \notin AccountIdsOf(removal.transactions)
         /\ a.id \notin IdsOf(accounts)
         /\ a.id \notin AccountIdsOf(transactions)

\* C18: the stored access token is removed by exactly those steps in which a
\* removal succeeds and leaves no active account; a removal that leaves an
\* active account, and every other step, keeps a stored token.
C18_TokenLifetime ==
  [][localStorage # Null =>
       ((localStorage' = Null) <=>
          /\ removal.pending # UndefinedId
          /\ removal'.pending = UndefinedId
          /\ removal'.outcome = "removed"
          /\ \A r \in dbAccounts' : ~r.is_active)]_vars

\* C21: while the bulk transaction upsert of a sync is awaited, no account
\* upsert of that sync is outstanding and every account of the fetch has its
\* saved row; and every row handed to the upsert carries as account_id the
\* internal id that saveAccount returned, and the store holds, for the account
\* with the transaction's external account id, and of no other account.
C21_JoinBarrier ==
  \A s \in SyncIds : sync[s].pc = "savingTransactions" =>
    /\ sync[s].pending = {}
    /\ sync[s].failed = {}
    /\ sync[s].savedIds = ExtAccountIds
    /\ LET rows == TransformedTransactions(sync[s].saved)
       IN  \A i \in 1..Len(rows) :
             LET ext == ExtTx(rows[i].external_transaction_id).account_id
             IN  /\ \E a \in sync[s].saved : /\ a.external_account_id = ext
                                             /\ a.id = rows[i].account_id
                 /\ \A a \in sync[s].saved \cup dbAccounts :
                      a.id = rows[i].account_id => a.external_account_id = ext
                 /\ \E d \in dbAccounts : /\ d.external_account_id = ext
                                          /\ d.id = rows[i].account_id

\* a sync awaits its transaction upsert with the rows of both accounts
C21_Witness ==
  \E s \in SyncIds :
    /\ sync[s].pc = "savingTransactions"
    /\ Len(TransformedTransactions(sync[s].saved)) = Cardinality(Resolvable)
    /\ Cardinality({r.id : r \in sync[s].saved}) = Cardinality(ExtAccountIds)

Persisted(i) ==
  \E r \in dbTransactions :
    r.external_transaction_id = ExtTransactions[i].transaction_id

\* C22: a sync that ended in success although the fetch held a transaction of
\* an account the fetch did not return has persisted every other transaction
\* and reports as many transactions as it resolved; the unresolvable
\* transaction is never persisted, and a sync ends in an error only with an
\* error notification of a rejected call.
C22_UnresolvableDropped ==
  /\ \A i \in 1..Len(ExtTransactions) : i \notin Resolvable => ~Persisted(i)
  /\ \A s \in SyncIds : sync[s].pc = "done" =>
       /\ sync[s].outcome = "ok" =>
            /\ sync[s].loaded = Cardinality(Resolvable)
            /\ \A i \in Resolvable : Persisted(i)
       /\ sync[s].outcome = "error" => sync[s].errorToasts > 0

\* a sync whose fetch held an unresolvable transaction ended in success
C22_Witness ==
  /\ Resolvable # 1..Len(ExtTransactions)
  /\ \E s \in SyncIds : /\ sync[s].pc = "done" /\ sync[s].outcome = "ok"
                         /\ sync[s].loaded = Cardinality(Resolvable)
                         /\ Cardinality(dbTransactions) = Cardinality(Resolvable)

\* C23: when a run scheduled by a sync writes its results, every transaction
\* of its batch that the user has overridden since the batch was taken (the
\* batch holds it as not manual, the store holds it as manual with the
\* category the user chose) keeps the user's category.
C23_InterimOverrideWins ==
  [][\A r \in SyncIds :
       (run[r].pc = "invoked" /\ run'[r].pc = "done") =>
         \A i \in 1..Len(run[r].batch) :
           \A row \in dbTransactions :
             (/\ row.id = run[r].batch[i].id
              /\ ~run[r].batch[i].is_manual_category
              /\ row.is_manual_category
              /\ <<row.id, row.category_name>> \in userChoice)
             => \E after \in dbTransactions' :
                  /\ after.id = row.id
                  /\ after.category_name = row.category_name]_vars

\* C24: when the transaction upsert of a sync resolves, the transactions
\* handed to the timer for categorization are exactly the rows this upsert
\* inserted (not the rows it found in the store) that are not manually
\* categorized.
C24_CategorizationInput ==
  [][\A s \in SyncIds :
       (sync[s].pc = "savingTransactions" /\ sync'[s].pc = "done"
        /\ sync'[s].outcome = "ok") =>
         LET sent == IF run'[s].pc = "scheduled"
                     THEN {run'[s].batch[i].id : i \in 1..Len(run'[s].batch)}
                     ELSE {}
             before == {r.id : r \in dbTransactions}
         IN  sent = {r.id : r \in {x \in dbTransactions' :
                                     x.id \notin before /\ ~x.is_manual_category}}]_vars

\* C25: whenever some transaction of the batch has exactly the description of
\* the model's result, the transaction found for the result is one with that
\* description, also when an earlier transaction satisfies the fuzzy
\* condition; the fuzzy condition decides only when no description is equal.
C25_ExactPreferred ==
  matching.kind # "none" =>
    LET exact == {i \in 1..Len(matching.batch) :
                    ExactMatch(matching.batch[i], matching.catTrans)}
        fuzzy == {i \in 1..Len(matching.batch) :
                    FuzzyMatch(matching.batch[i], matching.catTrans)}
    IN  /\ exact # {} =>
             /\ matching.found # NotFound
             /\ ExactMatch(matching.found, matching.catTrans)
        /\ (exact = {} /\ fuzzy # {}) =>
             /\ matching.found # NotFound
             /\ FuzzyMatch(matching.found, matching.catTrans)
        /\ (exact = {} /\ fuzzy = {}) => matching.found = NotFound

\* C26: whatever the server answers and whatever maxTransactions is, the
\* loop has issued at most 10 page requests, and it is about to issue another
\* one only if every page so far held records, fewer records than the total
\* reported last and fewer than maxTransactions have been collected, and
\* fewer than 10 requests were made.
C26_PaginationTerminates ==
  /\ fetch.requestCount <= MaxRequestCount
  /\ Len(fetch.requests) = fetch.requestCount
  /\ (fetch.pc = "loop" /\ fetch.requestCount > 0) =>
       /\ Len(fetch.allTransactions) = fetch.requestCount
       /\ \A i \in 1..Len(fetch.allTransactions) : fetch.allTransactions[i].len > 0
       /\ Length(fetch.allTransactions) < fetch.totalAvailable
       /\ Length(fetch.allTransactions) < fetch.maxTransactions
       /\ fetch.requestCount < MaxRequestCount
  /\ fetch.pc = "loop" => Length(fetch.allTransactions) < fetch.maxTransactions

\* a server whose total keeps growing and whose pages are short was asked
\* 10 times and no more, with fewer records collected than asked for
C26_Witness ==
  /\ fetch.mode = "arbitrary"
  /\ fetch.pc = "done"
  /\ fetch.requestCount = MaxRequestCount
  /\ Length(fetch.allTransactions) < fetch.totalAvailable
  /\ Length(fetch.allTransactions) < fetch.maxTransactions
  /\ \E i \in 1..Len(fetch.allTransactions) : fetch.allTransactions[i].len = 1

\* C27: every successful answer of categorize-transactions, from the remote
\* model or from the fallback rules, holds one entry per transaction of the
\* request, in order, each with one of the nine labels of the taxonomy.
C27_ClosedTaxonomy ==
  categorize.response.status = 200 =>
    LET result == categorize.response.categorizedTransactions
    IN  /\ Len(result) = Len(categorize.batch)
        /\ \A i \in 1..Len(result) :
             /\ result[i].description = categorize.batch[i].description
             /\ result[i].category \in Taxonomy

\* C28: a stored transaction is flagged is_manual_category only if the user
\* has overridden its category; a transaction categorized by the automated
\* runs alone is not flagged.
C28_ManualFlagOnlyByUser ==
  \A row \in dbTransactions :
    row.is_manual_category => \E c \in userChoice : c[1] = row.id


\* C29: every sync that passed the guard and set isLoading finishes with
\* isLoading cleared, whether its fetch and upserts resolved or rejected, and
\* isLoading is never left set once no sync is in flight.
C29_FlagReleased ==
  /\ []((\A s \in SyncIds : ~InFlight(s)) => ~isLoading)
  /\ \A s \in SyncIds : InFlight(s) ~> (sync[s].pc = "done" /\ ~isLoading)

C29_Witness ==
  /\ ~isLoading
  /\ \E s \in SyncIds : sync[s].pc = "done" /\ sync[s].outcome = "error"
                          /\ sync[s].failed # {}
  /\ \E s \in SyncIds : sync[s].pc = "done" /\ sync[s].outcome = "ok"


\* C30: an account that was removed when a refresh was requested is not set
\* back to is_active by that sync, so that it and its transactions stay out
\* of getAccounts and getTransactions; only a sync started by linking an
\* account may activate it again.
C30_RemovalSticky ==
  [][\A s \in SyncIds : \A r \in dbAccounts :
       (sync'[s] # sync[s] /\ r.id \in sync[s].removedAtStart /\ ~r.is_active)
         => /\ r.id \notin IdsOf(getAccounts(dbAccounts'))
            /\ r.id \notin AccountIdsOf(getTransactions(dbAccounts', dbTransactions',
                                                        UndefinedId))]_vars

====
